---- MODULE Spec2Model ----
(***************************************************************************)
(* Model of the jwt-auth middleware (package jwt): the Auth instance, the  *)
(* token strings it signs and parses, and the operations Process,          *)
(* checkAndRefreshTokens, IssueNewTokens and NullifyTokens.                *)
(*                                                                         *)
(* Token strings are modelled by their content: the header's alg, the      *)
(* claims payload and whether the signature verifies under the server's    *)
(* verification key.  Only SignedString produces a string whose signature  *)
(* verifies.  The clock counts ticks; Unix() truncates ticks to whole      *)
(* seconds as time.Time.Unix does.  GenerateRandomString is modelled as a  *)
(* source of fresh values: it never returns a value that already exists.   *)
(***************************************************************************)
EXTENDS Integers, Sequences, FiniteSets, TLC

\* ------------------------------------------------------------------ bounds
\* ticks per second of the model clock
TicksPerSec == 2
\* last tick of the model clock
MaxNow == 5
\* session ids (jti) 1..MaxId; 0 is the empty string
MaxId == 2
\* secrets 1..NumSecrets exist before the run; 0 is the empty string
NumSecrets == 2
\* expiries (Unix seconds) 1..MaxExp carried by presented tokens
MaxExp == 2
\* options.AuthTokenValidTime and options.RefreshTokenValidTime, in ticks
AuthValidTicks == 2
RefreshValidTicks == 5
\* number of random strings the generator may hand out in a session run
MaxRnd == 2
\* number of strings the server may send out in a session run
MaxKnown == 3
\* number of strings the server may send out in a logout run
MaxSent == 4
\* number of strings the caller's store may hold in a logout run
MaxRevoked == 2
\* number of words in an Authorization header value
MaxWords == 3

Ids == 1..MaxId
Subjects == {"alice", "bob"}
Customs == {"user", "admin"}
OldSecrets == 1..NumSecrets

\* time.Time.Unix(): whole seconds of a tick count
Unix(t) == t \div TicksPerSec

\* ------------------------------------------------------------ token strings
\* the zero value of ClaimsType
ZeroClaims ==
  [Id |-> 0, Subject |-> "", CustomClaims |-> "", Csrf |-> 0, ExpiresAt |-> 0]

\* form: "jwt"      three segments, header and payload decode
\*       "empty"    the empty string
\*       "segments" a non-empty string without exactly three segments
\*       "header"   three segments, the header does not decode
\*       "payload"  three segments, the claims payload does not decode
\*       "absent"   no string at all (no cookie / unset response field)
\* alg:  "conf" the configured signing method, "other" another registered
\*       method, "unknown" no registered method
Malformed(f) == [form |-> f, alg |-> "", claims |-> ZeroClaims, sig |-> FALSE]
EmptyString == Malformed("empty")
Absent == Malformed("absent")

ClaimsSet ==
  [Id : Ids, Subject : Subjects, CustomClaims : Customs,
   Csrf : OldSecrets, ExpiresAt : 1..MaxExp]

\* strings a client can present: every well-formed jwt over ClaimsSet with a
\* good signature, jwts with a bad signature, another or an unknown alg
\* (over the claims of one session, with every secret and expiry), and the
\* malformed strings
ForeignClaims ==
  {c \in ClaimsSet : c.Id = 1 /\ c.Subject = "alice" /\ c.CustomClaims = "user"}
TokenStrings ==
  [form : {"jwt"}, alg : {"conf"}, claims : ClaimsSet, sig : {TRUE}]
    \cup [form : {"jwt"}, alg : {"conf", "other", "unknown"},
          claims : ForeignClaims, sig : {FALSE}]
    \cup {Malformed(f) : f \in {"empty", "segments", "header", "payload"}}

\* ------------------------------------------------------------------- jwt-go
\* Token.SignedString with the configured method and a.signKey
SignedString(a, claims) ==
  IF a.signKey
    THEN [str |-> [form |-> "jwt", alg |-> "conf", claims |-> claims,
                   sig |-> TRUE],
          err |-> ""]
    ELSE [str |-> EmptyString, err |-> "key is invalid"]

\* StandardClaims.Valid: the expiry check (exp 0 means no expiry)
IsExpired(claims, t) == claims.ExpiresAt # 0 /\ Unix(t) > claims.ExpiresAt

\* jwt.ParseWithClaims(tokenString, &ClaimsType{}, keyFunc) at time t.
\* checkMethod: the keyFunc rejects a token whose method is not the
\* configured one.  isNil: the returned *Token is nil.  hasClaims: the
\* returned token's Claims holds a *ClaimsType.
ParseResult(isNil, hasClaims, claims, errs) ==
  [isNil |-> isNil, hasClaims |-> hasClaims, Claims |-> claims,
   Valid |-> (errs = {}), Errors |-> errs]
ParseWithClaims(s, checkMethod, t) ==
  IF s.form \in {"empty", "segments", "absent"}
    THEN ParseResult(TRUE, FALSE, ZeroClaims, {"Malformed"})
  ELSE IF s.form = "header"
    THEN ParseResult(FALSE, FALSE, ZeroClaims, {"Malformed"})
  ELSE IF s.form = "payload"
    THEN ParseResult(FALSE, TRUE, ZeroClaims, {"Malformed"})
  ELSE IF s.alg = "unknown" \/ (checkMethod /\ s.alg # "conf")
    THEN ParseResult(FALSE, TRUE, s.claims, {"Unverifiable"})
  ELSE ParseResult(FALSE, TRUE, s.claims,
         (IF IsExpired(s.claims, t) THEN {"Expired"} ELSE {})
           \cup (IF s.sig /\ s.alg = "conf" THEN {} ELSE {"SignatureInvalid"}))


\* --------------------------------------------------------- token operations
\* a: the Auth instance [signKey, verifyKey, options]; t: time.Now() in ticks

createRefreshTokenString(a, claims, csrfString, t) ==
  SignedString(a, [claims EXCEPT
    !.ExpiresAt = Unix(t + a.options.RefreshTokenValidTime),
    !.Csrf = csrfString])

createAuthTokenString(a, claims, csrfSecret, t) ==
  SignedString(a, [claims EXCEPT
    !.ExpiresAt = Unix(t + a.options.AuthTokenValidTime),
    !.Csrf = csrfSecret])

\* result of the functions that return (string, error); panic: the call
\* dereferenced a nil *Token
StrResult(str, err, panic) == [str |-> str, err |-> err, panic |-> panic]

\* variant: signs new claims that hold the expiry only
updateRefreshTokenExpFresh(a, oldRefreshTokenString, t) ==
  LET refreshToken == ParseWithClaims(oldRefreshTokenString, FALSE, t)
  IN IF refreshToken.isNil THEN StrResult(EmptyString, "", TRUE)
     ELSE IF ~refreshToken.hasClaims
       THEN StrResult(EmptyString, "Error parsing claims", FALSE)
     ELSE LET s == SignedString(a, [ZeroClaims EXCEPT
                     !.ExpiresAt = Unix(t + a.options.RefreshTokenValidTime)])
          IN StrResult(s.str, s.err, FALSE)

\* variant: the expiry is computed with the auth token's valid time
updateRefreshTokenExpAuthTime(a, oldRefreshTokenString, t) ==
  LET refreshToken == ParseWithClaims(oldRefreshTokenString, FALSE, t)
  IN IF refreshToken.isNil THEN StrResult(EmptyString, "", TRUE)
     ELSE IF ~refreshToken.hasClaims
       THEN StrResult(EmptyString, "Error parsing claims", FALSE)
     ELSE LET s == SignedString(a, [refreshToken.Claims EXCEPT
                     !.ExpiresAt = Unix(t + a.options.AuthTokenValidTime)])
          IN StrResult(s.str, s.err, FALSE)

updateRefreshTokenExp(a, oldRefreshTokenString, t) ==
  LET refreshToken == ParseWithClaims(oldRefreshTokenString, FALSE, t)
  IN IF refreshToken.isNil THEN StrResult(EmptyString, "", TRUE)
     ELSE IF ~refreshToken.hasClaims
       THEN StrResult(EmptyString, "Error parsing claims", FALSE)
     ELSE LET s == SignedString(a, [refreshToken.Claims EXCEPT
                     !.ExpiresAt = Unix(t + a.options.RefreshTokenValidTime)])
          IN StrResult(s.str, s.err, FALSE)

\* variant: the claims are signed again with the secret they had
updateRefreshTokenCsrfKept(a, oldRefreshTokenString, newCsrfString, t) ==
  LET refreshToken == ParseWithClaims(oldRefreshTokenString, FALSE, t)
  IN IF refreshToken.isNil THEN StrResult(EmptyString, "", TRUE)
     ELSE IF ~refreshToken.hasClaims
       THEN StrResult(EmptyString, "Error parsing claims", FALSE)
     ELSE LET s == SignedString(a, refreshToken.Claims)
          IN StrResult(s.str, s.err, FALSE)

\* variant: signs new claims that hold the secret only
updateRefreshTokenCsrfFresh(a, oldRefreshTokenString, newCsrfString, t) ==
  LET refreshToken == ParseWithClaims(oldRefreshTokenString, FALSE, t)
  IN IF refreshToken.isNil THEN StrResult(EmptyString, "", TRUE)
     ELSE IF ~refreshToken.hasClaims
       THEN StrResult(EmptyString, "Error parsing claims", FALSE)
     ELSE LET s == SignedString(a, [ZeroClaims EXCEPT
                     !.Csrf = newCsrfString,
                     !.ExpiresAt = refreshToken.Claims.ExpiresAt])
          IN StrResult(s.str, s.err, FALSE)

updateRefreshTokenCsrf(a, oldRefreshTokenString, newCsrfString, t) ==
  LET refreshToken == ParseWithClaims(oldRefreshTokenString, FALSE, t)
  IN IF refreshToken.isNil THEN StrResult(EmptyString, "", TRUE)
     ELSE IF ~refreshToken.hasClaims
       THEN StrResult(EmptyString, "Error parsing claims", FALSE)
     ELSE LET s == SignedString(a, [refreshToken.Claims EXCEPT
                     !.Csrf = newCsrfString])
          IN StrResult(s.str, s.err, FALSE)

\* okIds: the ids for which a.checkTokenId answers true; rand: the string
\* GenerateRandomString(32) returns.  gate: the calls made to checkTokenId.
AuthResult(str, csrf, err, panic, gate) ==
  [str |-> str, csrfSecret |-> csrf, err |-> err, panic |-> panic,
   gate |-> gate]

\* variant: the new auth token is made of the old auth token's claims
updateAuthTokenStringOfAuth(a, refreshTokenString, oldAuthTokenString, t, rand, okIds) ==
  LET refreshToken == ParseWithClaims(refreshTokenString, TRUE, t)
      authToken == ParseWithClaims(oldAuthTokenString, TRUE, t)
      id == refreshToken.Claims.Id
  IN IF refreshToken.isNil THEN AuthResult(EmptyString, 0, "", TRUE, <<>>)
     ELSE IF ~refreshToken.hasClaims
       THEN AuthResult(EmptyString, 0, "Error reading jwt claims", FALSE, <<>>)
     ELSE IF id \in okIds
       THEN IF refreshToken.Valid
              THEN LET s == createAuthTokenString(a, authToken.Claims, rand, t)
                   IN AuthResult(s.str, rand, s.err, FALSE, <<id>>)
              ELSE AuthResult(EmptyString, 0, "Unauthorized", FALSE, <<id>>)
       ELSE AuthResult(EmptyString, 0, "Unauthorized", FALSE, <<id>>)

updateAuthTokenString(a, refreshTokenString, oldAuthTokenString, t, rand, okIds) ==
  LET refreshToken == ParseWithClaims(refreshTokenString, TRUE, t)
      id == refreshToken.Claims.Id
  IN IF refreshToken.isNil THEN AuthResult(EmptyString, 0, "", TRUE, <<>>)
     ELSE IF ~refreshToken.hasClaims
       THEN AuthResult(EmptyString, 0, "Error reading jwt claims", FALSE, <<>>)
     ELSE IF id \in okIds
       THEN IF refreshToken.Valid
              THEN LET s == createAuthTokenString(a, refreshToken.Claims, rand, t)
                   IN AuthResult(s.str, rand, s.err, FALSE, <<id>>)
              ELSE AuthResult(EmptyString, 0, "Unauthorized", FALSE, <<id>>)
       ELSE AuthResult(EmptyString, 0, "Unauthorized", FALSE, <<id>>)

\* result of checkAndRefreshTokens: the three named results, err ("" is
\* nil), panic, the strings SignedString produced and the checkTokenId calls
CheckResult(auth, refresh, csrf, err, panic, signed, gate) ==
  [newAuthTokenString |-> auth, newRefreshTokenString |-> refresh,
   newCsrfSecret |-> csrf, err |-> err, panic |-> panic,
   signed |-> signed, gate |-> gate]

\* the string a call produced with SignedString, and the function that did
Signed(r, by) ==
  IF r.err = "" /\ ~r.panic THEN {[str |-> r.str, by |-> by]} ELSE {}

RotateTokens(a, oldAuthTokenString, oldRefreshTokenString, t, rand, okIds) ==
  LET rotated(ua, ue) ==
        LET uc == updateRefreshTokenCsrf(a, ue.str, ua.csrfSecret, t)
        IN IF ua.panic \/ ua.err # ""
             THEN CheckResult(ua.str, EmptyString, ua.csrfSecret, ua.err,
                              ua.panic, {}, ua.gate)
           ELSE IF ue.panic \/ ue.err # ""
             THEN CheckResult(ua.str, ue.str, ua.csrfSecret, ue.err, ue.panic,
                              Signed(ua, "createAuthTokenString"), ua.gate)
           ELSE CheckResult(ua.str, uc.str, ua.csrfSecret, uc.err, uc.panic,
                            Signed(ua, "createAuthTokenString")
                              \cup Signed(ue, "updateRefreshTokenExp")
                              \cup Signed(uc, "updateRefreshTokenCsrf"),
                            ua.gate)
  IN rotated(updateAuthTokenString(a, oldRefreshTokenString,
                                   oldAuthTokenString, t, rand, okIds),
             updateRefreshTokenExp(a, oldRefreshTokenString, t))

\* variant: the secret is not compared with the claims
CsrfMatchesAny(oldCsrfSecret, authTokenClaims) == TRUE

\* the secret sent with the request is the one in the auth token's claims
CsrfMatches(oldCsrfSecret, authTokenClaims) ==
  oldCsrfSecret = authTokenClaims.Csrf

\* variant: the refresh token is signed again on a verify-only server too
PassThroughSigning(a, oldAuthTokenString, oldRefreshTokenString, authTokenClaims, t) ==
  LET ue == updateRefreshTokenExp(a, oldRefreshTokenString, t)
  IN IF ue.panic
       THEN CheckResult(EmptyString, EmptyString, authTokenClaims.Csrf,
                        "", TRUE, {}, <<>>)
       ELSE CheckResult(oldAuthTokenString, ue.str,
                        authTokenClaims.Csrf, ue.err, FALSE,
                        Signed(ue, "updateRefreshTokenExp"), <<>>)

\* variant: the secret returned is the one in the refresh token's claims
PassThroughRefreshCsrf(a, oldAuthTokenString, oldRefreshTokenString, authTokenClaims, t) ==
  IF ~a.options.VerifyOnlyServer
    THEN LET ue == updateRefreshTokenExp(a, oldRefreshTokenString, t)
         IN IF ue.panic
              THEN CheckResult(EmptyString, EmptyString, authTokenClaims.Csrf,
                               "", TRUE, {}, <<>>)
              ELSE CheckResult(oldAuthTokenString, ue.str,
                               ue.str.claims.Csrf, ue.err, FALSE,
                               Signed(ue, "updateRefreshTokenExp"), <<>>)
    ELSE CheckResult(oldAuthTokenString, oldRefreshTokenString,
                     oldRefreshTokenString.claims.Csrf, "", FALSE, {}, <<>>)

\* the auth token is valid: it is returned as it is, and the refresh token
\* gets a new expiry unless the server cannot sign
PassThrough(a, oldAuthTokenString, oldRefreshTokenString, authTokenClaims, t) ==
  IF ~a.options.VerifyOnlyServer
    THEN LET ue == updateRefreshTokenExp(a, oldRefreshTokenString, t)
         IN IF ue.panic
              THEN CheckResult(EmptyString, EmptyString, authTokenClaims.Csrf,
                               "", TRUE, {}, <<>>)
              ELSE CheckResult(oldAuthTokenString, ue.str,
                               authTokenClaims.Csrf, ue.err, FALSE,
                               Signed(ue, "updateRefreshTokenExp"), <<>>)
    ELSE CheckResult(oldAuthTokenString, oldRefreshTokenString,
                     authTokenClaims.Csrf, "", FALSE, {}, <<>>)

checkAndRefreshTokens(a, oldAuthTokenString, oldRefreshTokenString, oldCsrfSecret, t, rand, okIds) ==
  LET authToken == ParseWithClaims(oldAuthTokenString, TRUE, t)
      fail(e) == CheckResult(EmptyString, EmptyString, 0, e, FALSE, {}, <<>>)
  IN IF oldCsrfSecret = 0 THEN fail("Unauthorized")
     ELSE IF authToken.isNil
       THEN CheckResult(EmptyString, EmptyString, 0, "", TRUE, {}, <<>>)
     ELSE IF ~authToken.hasClaims THEN fail("token is malformed")
     ELSE IF ~CsrfMatches(oldCsrfSecret, authToken.Claims)
       THEN fail("Unauthorized")
     ELSE IF authToken.Valid
       THEN PassThrough(a, oldAuthTokenString, oldRefreshTokenString,
                        authToken.Claims, t)
     ELSE IF "Expired" \in authToken.Errors
       THEN IF a.options.VerifyOnlyServer
              THEN fail("Server is not authorized to issue new tokens")
              ELSE RotateTokens(a, oldAuthTokenString, oldRefreshTokenString,
                                t, rand, okIds)
     ELSE fail("Error in auth token")

\* ------------------------------------------------------------ Auth instance
\* key locations: "" not given, "pem" a readable key file, "unreadable" a
\* file ReadFile fails on, "garbage" a file that holds no PEM key
DefaultRefreshTokenValidTime == 72 * 3600 * TicksPerSec
DefaultAuthTokenValidTime == 15 * 60 * TicksPerSec

\* revokeRefreshToken: what the configured TokenRevoker returns when it is
\* called, "nil" or "error" ("": no function set)
ZeroAuth ==
  [signKey |-> FALSE, verifyKey |-> FALSE, revokeRefreshToken |-> "",
   options |-> [SigningMethodString |-> "", PrivateKeyLocation |-> "",
                PublicKeyLocation |-> "", HMACKey |-> FALSE,
                VerifyOnlyServer |-> FALSE, BearerTokens |-> FALSE,
                RefreshTokenValidTime |-> 0, AuthTokenValidTime |-> 0]]

\* variant: the signing key is kept on a verify-only server too
NewKeepingSignKey(auth, options) ==
  LET o == [options EXCEPT
             !.RefreshTokenValidTime =
                IF @ <= 0 THEN DefaultRefreshTokenValidTime ELSE @,
             !.AuthTokenValidTime =
                IF @ <= 0 THEN DefaultAuthTokenValidTime ELSE @]
      ok(signKey) == [err |-> "",
                      auth |-> [signKey |-> signKey, verifyKey |-> TRUE,
                                revokeRefreshToken |-> "nil",
                                options |-> o]]
      bad(e) == [err |-> e, auth |-> auth]
  IN IF o.SigningMethodString \in {"HS256", "HS384", "HS512"}
       THEN IF ~o.HMACKey
              THEN bad("When using an HMAC-SHA signing method, please provide a HMACKey")
              ELSE ok(TRUE)
     ELSE IF o.SigningMethodString \in
               {"RS256", "RS384", "RS512", "ES256", "ES384", "ES512"}
       THEN IF (o.PrivateKeyLocation = "" /\ ~o.VerifyOnlyServer)
                 \/ o.PublicKeyLocation = ""
              THEN bad("Private and public key locations are required!")
            ELSE IF ~o.VerifyOnlyServer /\ o.PrivateKeyLocation # "pem"
              THEN bad("private key file")
            ELSE IF o.PublicKeyLocation # "pem"
              THEN bad("public key file")
            ELSE ok(TRUE)
     ELSE bad("Signing method string not recognized!")

\* New(auth, options): [err, auth]; err "" is nil
New(auth, options) ==
  LET o == [options EXCEPT
             !.RefreshTokenValidTime =
                IF @ <= 0 THEN DefaultRefreshTokenValidTime ELSE @,
             !.AuthTokenValidTime =
                IF @ <= 0 THEN DefaultAuthTokenValidTime ELSE @]
      ok(signKey) == [err |-> "",
                      auth |-> [signKey |-> signKey, verifyKey |-> TRUE,
                                revokeRefreshToken |-> "nil",
                                options |-> o]]
      bad(e) == [err |-> e, auth |-> auth]
  IN IF o.SigningMethodString \in {"HS256", "HS384", "HS512"}
       THEN IF ~o.HMACKey
              THEN bad("When using an HMAC-SHA signing method, please provide a HMACKey")
              ELSE ok(~o.VerifyOnlyServer)
     ELSE IF o.SigningMethodString \in
               {"RS256", "RS384", "RS512", "ES256", "ES384", "ES512"}
       THEN IF (o.PrivateKeyLocation = "" /\ ~o.VerifyOnlyServer)
                 \/ o.PublicKeyLocation = ""
              THEN bad("Private and public key locations are required!")
            ELSE IF ~o.VerifyOnlyServer /\ o.PrivateKeyLocation # "pem"
              THEN bad("private key file")
            ELSE IF o.PublicKeyLocation # "pem"
              THEN bad("public key file")
            ELSE ok(~o.VerifyOnlyServer)
     ELSE bad("Signing method string not recognized!")

SetRevokeTokenFunction(auth, revoker) ==
  [auth EXCEPT !.revokeRefreshToken = revoker]

\* the strings handed to the caller's functions, by their text: a token
\* string with three segments, another non-empty string, an id, or "".
\* A token string holds its id inside its payload and is never its own id.
TokenText(s) ==
  IF s.form \in {"empty", "absent"} THEN <<>>
  ELSE IF s.form = "segments" THEN <<"segments">>
  ELSE <<s.form, s.alg, s.claims, s.sig>>
IdText(id) == IF id = 0 THEN <<>> ELSE <<"id", id>>

\* ---------------------------------------------------------------- transport
\* the http.ResponseWriter: cookies set, headers set, and the handlers the
\* middleware invoked on it.  NoValue: a header or cookie that was not set.
NoValue == 0 - 1
NullifyOffset == 1000 * 3600 * TicksPerSec

FreshWriter ==
  [AuthTokenCookie |-> Absent, AuthTokenExpires |-> NoValue,
   RefreshTokenCookie |-> Absent, RefreshTokenExpires |-> NoValue,
   Auth_Token |-> Absent, Refresh_Token |-> Absent,
   XCSRFToken |-> NoValue, AuthExpiry |-> NoValue, RefreshExpiry |-> NoValue,
   handlers |-> <<>>]

\* the http.Request: Method; AuthToken and RefreshToken, the cookies of
\* these names or the bearer fields Auth_Token and Refresh_Token (Absent:
\* not sent); ContentType and Body of a bearer request; refresh_token, the
\* form field of that name; the three places a secret can be sent in.
\* JunkSecret: the non-empty string left of an Authorization header that
\* holds no secret.
JunkSecret == 0 - 2

\* An Authorization header value is a sequence of words: the word "Basic",
\* a space, a tab, or a secret (a positive number).
BasicWord == 0 - 3
Space == 0 - 4
Tab == 0 - 5
NoAuthorization == <<>>

\* strings.Replace(s, old, "", n): s without its first n occurrences of
\* old, all of them when n < 0
RECURSIVE Replace(_, _, _)
Replace(s, old, n) ==
  IF s = <<>> \/ n = 0 THEN s
  ELSE IF Head(s) = old THEN Replace(Tail(s), old, n - 1)
  ELSE <<Head(s)>> \o Replace(Tail(s), old, n)

\* the string a sequence of words spells, as a secret: "" is 0, a secret on
\* its own is that secret, anything else is no secret
SecretOf(text) ==
  IF text = <<>> THEN 0
  ELSE IF Len(text) = 1 /\ text[1] > 0 THEN text[1]
  ELSE JunkSecret

\* strings.Join(r.Form[name], "") / a json field: a missing one is ""
FieldValue(x) == IF x = Absent THEN EmptyString ELSE x

\* variant: the header is looked at before the form field
grabCsrfFromReqHeaderFirst(r) ==
  IF r.HeaderCsrf # 0 THEN r.HeaderCsrf
  ELSE IF r.FormCsrf # 0 THEN r.FormCsrf
  ELSE SecretOf(Replace(Replace(r.Authorization, BasicWord, 1), Space, 0 - 1))

grabCsrfFromReq(r) ==
  IF r.FormCsrf # 0 THEN r.FormCsrf
  ELSE IF r.HeaderCsrf # 0 THEN r.HeaderCsrf
  ELSE SecretOf(Replace(Replace(r.Authorization, BasicWord, 1), Space, 0 - 1))

setAuthAndRefreshTokens(a, w, authTokenString, refreshTokenString, t) ==
  IF a.options.BearerTokens
    THEN [w EXCEPT !.Auth_Token = authTokenString,
                   !.Refresh_Token = refreshTokenString]
    ELSE [w EXCEPT
           !.AuthTokenCookie = authTokenString,
           !.AuthTokenExpires = Unix(t + a.options.AuthTokenValidTime),
           !.RefreshTokenCookie = refreshTokenString,
           !.RefreshTokenExpires = Unix(t + a.options.RefreshTokenValidTime)]

\* variant: the revoke function is called without a refresh cookie too
NullifyTokensAlwaysRevoking(a, w, r, t) ==
  LET past == Unix(t - NullifyOffset)
      headers(x) == [x EXCEPT !.XCSRFToken = 0, !.AuthExpiry = past,
                              !.RefreshExpiry = past]
      failed(x) == [w |-> [x EXCEPT !.handlers = Append(@, "error")],
                    revoke |-> <<>>]
      cookies == [w EXCEPT
                   !.AuthTokenCookie = EmptyString, !.AuthTokenExpires = past,
                   !.RefreshTokenCookie = EmptyString,
                   !.RefreshTokenExpires = past]
  IN IF a.options.BearerTokens
       THEN IF r.ContentType = "json"
              THEN IF r.Body # "ok" THEN failed(w)
                   ELSE [w |-> headers(w),
                         revoke |-> <<FieldValue(r.RefreshToken)>>]
              ELSE [w |-> headers(w),
                    revoke |-> <<FieldValue(r.refresh_token)>>]
       ELSE IF r.RefreshToken = Absent
              THEN [w |-> cookies, revoke |-> <<EmptyString>>]
              ELSE [w |-> headers(cookies), revoke |-> <<r.RefreshToken>>]

\* variant: an error of the revoke function ends the call with the error
\* handler
NullifyTokensFailing(a, w, r, t) ==
  LET past == Unix(t - NullifyOffset)
      headers(x) == [x EXCEPT !.XCSRFToken = 0, !.AuthExpiry = past,
                              !.RefreshExpiry = past]
      failed(x) == [w |-> [x EXCEPT !.handlers = Append(@, "error")],
                    revoke |-> <<>>]
      cookies == [w EXCEPT
                   !.AuthTokenCookie = EmptyString, !.AuthTokenExpires = past,
                   !.RefreshTokenCookie = EmptyString,
                   !.RefreshTokenExpires = past]
  IN IF a.revokeRefreshToken = "error" /\ ~a.options.BearerTokens
          /\ r.RefreshToken # Absent
       THEN [w |-> [cookies EXCEPT !.handlers = Append(@, "error")],
             revoke |-> <<r.RefreshToken>>]
     ELSE IF a.options.BearerTokens
       THEN IF r.ContentType = "json"
              THEN IF r.Body # "ok" THEN failed(w)
                   ELSE [w |-> headers(w),
                         revoke |-> <<FieldValue(r.RefreshToken)>>]
              ELSE [w |-> headers(w),
                    revoke |-> <<FieldValue(r.refresh_token)>>]
       ELSE IF r.RefreshToken = Absent
              THEN [w |-> cookies, revoke |-> <<>>]
              ELSE [w |-> headers(cookies), revoke |-> <<r.RefreshToken>>]

\* NullifyTokens(w, r): [w, revoke]; revoke: the arguments of the calls made
\* to a.revokeRefreshToken
NullifyTokens(a, w, r, t) ==
  LET past == Unix(t - NullifyOffset)
      headers(x) == [x EXCEPT !.XCSRFToken = 0, !.AuthExpiry = past,
                              !.RefreshExpiry = past]
      failed(x) == [w |-> [x EXCEPT !.handlers = Append(@, "error")],
                    revoke |-> <<>>]
      cookies == [w EXCEPT
                   !.AuthTokenCookie = EmptyString, !.AuthTokenExpires = past,
                   !.RefreshTokenCookie = EmptyString,
                   !.RefreshTokenExpires = past]
  IN IF a.options.BearerTokens
       THEN IF r.ContentType = "json"
              THEN IF r.Body # "ok" THEN failed(w)
                   ELSE [w |-> headers(w),
                         revoke |-> <<FieldValue(r.RefreshToken)>>]
              ELSE [w |-> headers(w),
                    revoke |-> <<FieldValue(r.refresh_token)>>]
       ELSE IF r.RefreshToken = Absent
              THEN [w |-> cookies, revoke |-> <<>>]
              ELSE [w |-> headers(cookies), revoke |-> <<r.RefreshToken>>]

NoCheck == CheckResult(Absent, Absent, NoValue, "", FALSE, {}, <<>>)

\* variant: the method of the request is not looked at
ProcessAnyMethod(a, w, r, t, rand, okIds) ==
  LET out(ret, x, check, revoke) ==
        [ret |-> ret, w |-> x, check |-> check, revoke |-> revoke]
      call(x, h) == [x EXCEPT !.handlers = Append(@, h)]
      nullified == NullifyTokens(a, w, r, t)
      authTokenValue == FieldValue(r.AuthToken)
      refreshTokenValue == FieldValue(r.RefreshToken)
      checked(check) ==
        IF check.panic THEN out("panic", w, check, <<>>)
        ELSE IF check.err \in
                  {"Unauthorized",
                   "Server is not authorized to issue new tokens"}
          THEN out("Unauthorized", call(w, "unauthorized"), check, <<>>)
        ELSE IF check.err # ""
          THEN out("Internal Server Error", call(w, "error"), check, <<>>)
        ELSE out("",
                 [setAuthAndRefreshTokens(a, w, check.newAuthTokenString,
                                          check.newRefreshTokenString, t)
                    EXCEPT !.XCSRFToken = check.newCsrfSecret,
                           !.AuthExpiry =
                              Unix(t + a.options.AuthTokenValidTime),
                           !.RefreshExpiry =
                              Unix(t + a.options.RefreshTokenValidTime)],
                 check, <<>>)
  IN IF a.options.BearerTokens /\ r.ContentType = "json" /\ r.Body # "ok"
       THEN out("Internal Server Error", call(w, "error"), NoCheck, <<>>)
     ELSE IF ~a.options.BearerTokens
               /\ (r.AuthToken = Absent \/ r.RefreshToken = Absent)
       THEN out("Unauthorized", call(nullified.w, "unauthorized"), NoCheck,
                nullified.revoke)
     ELSE checked(checkAndRefreshTokens(a, authTokenValue, refreshTokenValue,
                                        grabCsrfFromReq(r), t, rand, okIds))

\* Process(w, r): [ret, w, check, revoke]; ret: the returned error ("" is
\* nil, "panic" an aborted request); check: what checkAndRefreshTokens
\* returned, NoCheck when it was not called
Process(a, w, r, t, rand, okIds) ==
  LET out(ret, x, check, revoke) ==
        [ret |-> ret, w |-> x, check |-> check, revoke |-> revoke]
      call(x, h) == [x EXCEPT !.handlers = Append(@, h)]
      nullified == NullifyTokens(a, w, r, t)
      authTokenValue == FieldValue(r.AuthToken)
      refreshTokenValue == FieldValue(r.RefreshToken)
      checked(check) ==
        IF check.panic THEN out("panic", w, check, <<>>)
        ELSE IF check.err \in
                  {"Unauthorized",
                   "Server is not authorized to issue new tokens"}
          THEN out("Unauthorized", call(w, "unauthorized"), check, <<>>)
        ELSE IF check.err # ""
          THEN out("Internal Server Error", call(w, "error"), check, <<>>)
        ELSE out("",
                 [setAuthAndRefreshTokens(a, w, check.newAuthTokenString,
                                          check.newRefreshTokenString, t)
                    EXCEPT !.XCSRFToken = check.newCsrfSecret,
                           !.AuthExpiry =
                              Unix(t + a.options.AuthTokenValidTime),
                           !.RefreshExpiry =
                              Unix(t + a.options.RefreshTokenValidTime)],
                 check, <<>>)
  IN IF r.Method = "OPTIONS" THEN out("", w, NoCheck, <<>>)
     ELSE IF a.options.BearerTokens /\ r.ContentType = "json" /\ r.Body # "ok"
       THEN out("Internal Server Error", call(w, "error"), NoCheck, <<>>)
     ELSE IF ~a.options.BearerTokens
               /\ (r.AuthToken = Absent \/ r.RefreshToken = Absent)
       THEN out("Unauthorized", call(nullified.w, "unauthorized"), NoCheck,
                nullified.revoke)
     ELSE checked(checkAndRefreshTokens(a, authTokenValue, refreshTokenValue,
                                        grabCsrfFromReq(r), t, rand, okIds))

\* variant: the wrapped handler is served whatever Process returned
HandlerAlwaysServing(a, w, r, t, rand, okIds) ==
  LET handled(p) == [p EXCEPT !.w.handlers = Append(@, "h")]
  IN handled(Process(a, w, r, t, rand, okIds))

\* Handler(h) serving (w, r): what Process gave, and h served on w after it
\* returned nil
Handler(a, w, r, t, rand, okIds) ==
  LET handled(p) ==
        IF p.ret # "" THEN p
        ELSE [p EXCEPT !.w.handlers = Append(@, "h")]
  IN handled(Process(a, w, r, t, rand, okIds))

\* HandlerFuncWithNext(w, r, next); next is "nil" or "next"
HandlerFuncWithNext(a, w, r, next, t, rand, okIds) ==
  LET handled(p) ==
        IF p.ret = "" /\ next # "nil"
          THEN [p EXCEPT !.w.handlers = Append(@, next)]
          ELSE p
  IN handled(Process(a, w, r, t, rand, okIds))

\* variant: VerifyOnlyServer is not looked at
IssueNewTokensUnguarded(a, w, claims, t, rand) ==
  LET refresh == createRefreshTokenString(a, claims, rand, t)
      auth == createAuthTokenString(a, claims, rand, t)
  IN IF refresh.err # ""
       THEN [ret |-> refresh.err, w |-> w, signed |-> {}]
     ELSE IF auth.err # ""
       THEN [ret |-> auth.err, w |-> w,
             signed |-> {[str |-> refresh.str,
                          by |-> "createRefreshTokenString"]}]
     ELSE [ret |-> "",
           w |-> [setAuthAndRefreshTokens(a, w, auth.str, refresh.str, t)
                    EXCEPT !.XCSRFToken = rand,
                           !.AuthExpiry = Unix(t + a.options.AuthTokenValidTime),
                           !.RefreshExpiry =
                              Unix(t + a.options.RefreshTokenValidTime)],
           signed |-> {[str |-> refresh.str, by |-> "createRefreshTokenString"],
                       [str |-> auth.str, by |-> "createAuthTokenString"]}]

\* IssueNewTokens(w, claims): [ret, w, signed]
IssueNewTokens(a, w, claims, t, rand) ==
  LET refresh == createRefreshTokenString(a, claims, rand, t)
      auth == createAuthTokenString(a, claims, rand, t)
  IN IF a.options.VerifyOnlyServer
       THEN [ret |-> "Server is not authorized to issue new tokens", w |-> w,
             signed |-> {}]
     ELSE IF refresh.err # ""
       THEN [ret |-> refresh.err, w |-> w, signed |-> {}]
     ELSE IF auth.err # ""
       THEN [ret |-> auth.err, w |-> w,
             signed |-> {[str |-> refresh.str,
                          by |-> "createRefreshTokenString"]}]
     ELSE [ret |-> "",
           w |-> [setAuthAndRefreshTokens(a, w, auth.str, refresh.str, t)
                    EXCEPT !.XCSRFToken = rand,
                           !.AuthExpiry = Unix(t + a.options.AuthTokenValidTime),
                           !.RefreshExpiry =
                              Unix(t + a.options.RefreshTokenValidTime)],
           signed |-> {[str |-> refresh.str, by |-> "createRefreshTokenString"],
                       [str |-> auth.str, by |-> "createAuthTokenString"]}]

\* the strings signed as auth tokens and as refresh tokens
MintedAs(sgn, slot) ==
  {e.str : e \in {x \in sgn :
     (x.by = "createAuthTokenString") <=> (slot = "auth")}}

\* -------------------------------------------------------------------- state
\* now:    the clock, in ticks
\* a:      the Auth instance New constructed
\* rnd:    how many strings GenerateRandomString has handed out
\* op, r, claims: the operation last run and its inputs
\* ret, w, check, gate, revoke, signed: what that operation returned, wrote
\*         to its ResponseWriter, got from checkAndRefreshTokens, asked
\*         a.checkTokenId (with the answers), passed to a.revokeRefreshToken
\*         and signed
\* known:  the strings the server has signed and sent out so far, each with
\*         the tick it was first signed at and what it was signed as
\*         ("auth" or "refresh" token)
\* revoked: the ids the caller's store answers a.checkTokenId false for
VARIABLES now, a, rnd, op, r, claims, ret, w, check, gate, revoke, signed,
          known, revoked

vars == <<now, a, rnd, op, r, claims, ret, w, check, gate, revoke, signed,
          known, revoked>>

NoRequest ==
  [Method |-> "", AuthToken |-> Absent, RefreshToken |-> Absent,
   ContentType |-> "", Body |-> "", refresh_token |-> Absent,
   FormCsrf |-> 0, HeaderCsrf |-> 0, Authorization |-> NoAuthorization]

\* the ids a.checkTokenId can be asked about ("" included)
GateIds == 0..MaxId

\* variant: the generator hands out the same string again
NextRandomRepeating(n) == NumSecrets + 1
\* the string GenerateRandomString returns next: one that does not exist yet
NextRandom(n) == NumSecrets + n + 1

HMACOptions(verifyOnly, bearer) ==
  [SigningMethodString |-> "HS256", PrivateKeyLocation |-> "",
   PublicKeyLocation |-> "", HMACKey |-> TRUE,
   VerifyOnlyServer |-> verifyOnly, BearerTokens |-> bearer,
   RefreshTokenValidTime |-> RefreshValidTicks,
   AuthTokenValidTime |-> AuthValidTicks]

\* requests that carry both tokens as cookies and the secret in the header
CookieRequests ==
  [Method : {"GET"}, AuthToken : TokenStrings, RefreshToken : TokenStrings,
   ContentType : {"form"}, Body : {"ok"}, refresh_token : {Absent},
   FormCsrf : {0}, HeaderCsrf : 0..NumSecrets,
   Authorization : {NoAuthorization}]

\* claims a caller passes to IssueNewTokens (the id may be left empty)
CallerClaims ==
  [Id : 0..MaxId, Subject : Subjects, CustomClaims : Customs, Csrf : {0},
   ExpiresAt : {0}]

Idle ==
  /\ op = "none" /\ r = NoRequest /\ claims = ZeroClaims
  /\ ret = "" /\ w = FreshWriter /\ check = NoCheck
  /\ gate = <<>> /\ revoke = <<>> /\ signed = {}

Init ==
  /\ now = 0
  /\ \E verifyOnly \in BOOLEAN :
       a = New(ZeroAuth, HMACOptions(verifyOnly, FALSE)).auth
  /\ rnd = 0
  /\ known = {} /\ revoked = {}
  /\ Idle

\* the clock advances between requests
Tick ==
  /\ op = "none"
  /\ now < MaxNow
  /\ now' = now + 1
  /\ UNCHANGED <<a, rnd, op, r, claims, ret, w, check, gate, revoke, signed,
                 known, revoked>>

\* one request served by Process on a fresh ResponseWriter; okIds: the ids
\* a.checkTokenId answers true for while the request is served
Serve(req, okIds, rand) ==
  LET served(p) ==
        /\ op' = "Process" /\ r' = req /\ claims' = ZeroClaims
        /\ ret' = p.ret /\ w' = p.w /\ check' = p.check
        /\ gate' = [i \in DOMAIN p.check.gate |->
                      [id |-> p.check.gate[i],
                       ok |-> p.check.gate[i] \in okIds]]
        /\ revoke' = p.revoke
        /\ signed' = p.check.signed
        /\ UNCHANGED <<now, a>>
  IN /\ op = "none"
     /\ served(Process(a, FreshWriter, req, now, rand, okIds))

\* one call of IssueNewTokens on a fresh ResponseWriter
Issue(c, rand) ==
  LET issued(i) ==
        /\ op' = "IssueNewTokens" /\ r' = NoRequest /\ claims' = c
        /\ ret' = i.ret /\ w' = i.w /\ check' = NoCheck
        /\ gate' = <<>> /\ revoke' = <<>>
        /\ signed' = i.signed
        /\ UNCHANGED <<now, a>>
  IN /\ op = "none"
     /\ issued(IssueNewTokens(a, FreshWriter, c, now, rand))

\* the response is sent and the server waits for the next request
Finish ==
  /\ op # "none"
  /\ op' = "none" /\ r' = NoRequest /\ claims' = ZeroClaims
  /\ ret' = "" /\ w' = FreshWriter /\ check' = NoCheck
  /\ gate' = <<>> /\ revoke' = <<>> /\ signed' = {}
  /\ UNCHANGED <<now, a, rnd, known, revoked>>

\* the Authorization header values net/http hands over: leading and
\* trailing white space is trimmed while the header is read
RECURSIVE WordsUpTo(_)
WordsUpTo(n) ==
  IF n = 0 THEN {<<>>}
  ELSE WordsUpTo(n - 1)
         \cup {<<x>> \o s : x \in {BasicWord, Space, Tab} \cup (1..NumSecrets),
                            s \in {t \in WordsUpTo(n - 1) : Len(t) = n - 1}}

AuthorizationValues ==
  {s \in WordsUpTo(MaxWords) :
     s # <<>> => s[1] \notin {Space, Tab} /\ s[Len(s)] \notin {Space, Tab}}

\* requests that carry a secret in any of the three places
SecretRequests ==
  [Method : {"GET"}, AuthToken : {Absent}, RefreshToken : {Absent},
   ContentType : {"form"}, Body : {"ok"}, refresh_token : {Absent},
   FormCsrf : 0..NumSecrets, HeaderCsrf : 0..NumSecrets,
   Authorization : AuthorizationValues]

\* one call of grabCsrfFromReq
Grab ==
  /\ op = "none"
  /\ \E req \in SecretRequests :
       /\ op' = "grabCsrfFromReq" /\ r' = req
       /\ ret' = grabCsrfFromReq(req)
  /\ UNCHANGED <<now, a, rnd, claims, w, check, gate, revoke, signed, known,
                 revoked>>

GrabNext == Grab \/ Finish

\* GrabSpec: the secret is taken out of arbitrary requests
GrabSpec == Init /\ [][GrabNext]_vars

\* the Options a caller can pass to New
SigningMethodStrings ==
  {"HS256", "HS384", "HS512", "RS256", "RS384", "RS512",
   "ES256", "ES384", "ES512", "none", ""}
KeyLocations == {"", "pem", "unreadable", "garbage"}
AnyOptions ==
  [SigningMethodString : SigningMethodStrings,
   PrivateKeyLocation : KeyLocations, PublicKeyLocation : KeyLocations,
   HMACKey : BOOLEAN, VerifyOnlyServer : BOOLEAN, BearerTokens : {FALSE},
   RefreshTokenValidTime : {0, RefreshValidTicks},
   AuthTokenValidTime : {AuthValidTicks}]

\* the Auth is a zero value or was set up by an earlier call of New
NewInit ==
  /\ now = 0 /\ rnd = 0 /\ known = {} /\ revoked = {}
  /\ a \in {ZeroAuth} \cup {New(ZeroAuth, HMACOptions(v, FALSE)).auth :
                                v \in BOOLEAN}
  /\ Idle

\* one call of New; r holds the Options it was called with
Configure ==
  /\ op = "none"
  /\ \E o \in AnyOptions :
       LET configured(n) ==
             /\ op' = "New" /\ r' = o /\ ret' = n.err /\ a' = n.auth
       IN configured(New(a, o))
  /\ UNCHANGED <<now, rnd, claims, w, check, gate, revoke, signed, known,
                 revoked>>

NewNext == Configure

\* NewSpec: New is called once with arbitrary Options
NewSpec == NewInit /\ [][NewNext]_vars

\* HandlerSpec: the middleware in front of a wrapped handler, in cookie and
\* in bearer mode.  Requests carry any method, the tokens of one session
\* (good, forged, malformed or missing) and any secret, or a body that
\* cannot be read as json.
HandlerTokens ==
  {s \in TokenStrings : s.claims \in ForeignClaims \cup {ZeroClaims}}
    \cup {Absent}

HandlerRequests ==
  [Method : {"GET", "OPTIONS"}, AuthToken : HandlerTokens,
   RefreshToken : HandlerTokens, ContentType : {"form"}, Body : {"ok"},
   refresh_token : {Absent}, FormCsrf : {0}, HeaderCsrf : 0..NumSecrets,
   Authorization : {NoAuthorization}]
    \cup [Method : {"POST", "OPTIONS"}, AuthToken : {Absent},
          RefreshToken : {Absent}, ContentType : {"json"}, Body : {"bad"},
          refresh_token : {Absent}, FormCsrf : {0}, HeaderCsrf : {0},
          Authorization : {NoAuthorization}]

HandlerInit ==
  /\ now = 0
  /\ \E verifyOnly \in BOOLEAN, bearer \in BOOLEAN :
       a = New(ZeroAuth, HMACOptions(verifyOnly, bearer)).auth
  /\ rnd = 0
  /\ known = {} /\ revoked = {}
  /\ Idle

\* what a middleware call leaves behind; ret is what Process returned in it
Handled(name, req, p, okIds) ==
  /\ op' = name /\ r' = req /\ claims' = ZeroClaims
  /\ ret' = p.ret /\ w' = p.w /\ check' = p.check
  /\ gate' = [i \in DOMAIN p.check.gate |->
                [id |-> p.check.gate[i], ok |-> p.check.gate[i] \in okIds]]
  /\ revoke' = p.revoke
  /\ signed' = p.check.signed
  /\ UNCHANGED <<now, a, rnd, known, revoked>>

\* one request served by Handler(h)
Handle ==
  /\ op = "none"
  /\ \E req \in HandlerRequests, ans \in BOOLEAN :
       LET okIds == IF ans THEN GateIds ELSE {}
       IN Handled("Handler", req,
                  Handler(a, FreshWriter, req, now, NextRandom(rnd), okIds),
                  okIds)

\* one request served by HandlerFuncWithNext, with or without a next
HandleWithNext ==
  /\ op = "none"
  /\ \E req \in HandlerRequests, ans \in BOOLEAN, next \in {"nil", "next"} :
       LET okIds == IF ans THEN GateIds ELSE {}
       IN Handled(IF next = "nil" THEN "HandlerFuncWithNext(nil)"
                  ELSE "HandlerFuncWithNext", req,
                  HandlerFuncWithNext(a, FreshWriter, req, next, now,
                                      NextRandom(rnd), okIds),
                  okIds)

HandlerNext == Tick \/ Handle \/ HandleWithNext \/ Finish

HandlerSpec == HandlerInit /\ [][HandlerNext]_vars

\* ReplaySpec: invocations that overlap.  A request is served, and the same
\* request is served again at the same clock reading by another invocation;
\* each invocation draws its own string from the generator and gets its own
\* answers from a.checkTokenId.
ReplayRequests ==
  [Method : {"GET"}, AuthToken : HandlerTokens \ {Absent},
   RefreshToken : HandlerTokens \ {Absent}, ContentType : {"form"},
   Body : {"ok"}, refresh_token : {Absent}, FormCsrf : {0},
   HeaderCsrf : 0..NumSecrets, Authorization : {NoAuthorization}]

\* the generator has handed out its next string if the call returned it
Drawn(c, n) == IF c.newCsrfSecret = NextRandom(n) THEN n + 1 ELSE n

First ==
  /\ op = "none"
  /\ \E req \in ReplayRequests, ans \in BOOLEAN :
       /\ Serve(req, IF ans THEN GateIds ELSE {}, NextRandom(rnd))
       /\ rnd' = Drawn(check', rnd)
       /\ rnd' <= MaxRnd
       /\ UNCHANGED <<known, revoked>>

Again ==
  /\ op = "Process"
  /\ \E ans \in BOOLEAN :
       LET okIds == IF ans THEN GateIds ELSE {}
           again(p) ==
             /\ op' = "Process" /\ r' = r
             /\ ret' = p.ret /\ w' = p.w /\ check' = p.check
             /\ gate' = [i \in DOMAIN p.check.gate |->
                           [id |-> p.check.gate[i],
                            ok |-> p.check.gate[i] \in okIds]]
             /\ revoke' = p.revoke
             /\ signed' = p.check.signed
             /\ rnd' = Drawn(p.check, rnd)
             /\ rnd' <= MaxRnd
             /\ UNCHANGED <<now, a, claims, known, revoked>>
       IN again(Process(a, FreshWriter, r, now, NextRandom(rnd), okIds))

ReplayNext == Tick \/ First \/ Again \/ Finish

ReplaySpec == Init /\ [][ReplayNext]_vars

\* Spec: the server answers arbitrary requests; each is judged on its own,
\* and a.checkTokenId is a black box that answers either way
ServeAny ==
  /\ op = "none"
  /\ \E req \in CookieRequests, ans \in BOOLEAN :
       /\ Serve(req, IF ans THEN GateIds ELSE {}, NextRandom(rnd))
       /\ UNCHANGED <<rnd, known, revoked>>

IssueAny ==
  /\ op = "none"
  /\ \E c \in CallerClaims :
       /\ Issue(c, NextRandom(rnd))
       /\ UNCHANGED <<rnd, known, revoked>>

Next == Tick \/ ServeAny \/ IssueAny \/ Finish

Spec == Init /\ [][Next]_vars

\* ----------------------------------------------------------------- sessions
\* SessionSpec: a signing server and its clients over time.  Clients present
\* the strings the server sent out (in either place), forgeries and
\* malformed strings, with a secret they have seen; the caller's store
\* revokes ids for good.

\* the claims logins are issued for: one subject and role per id
SessionClaims ==
  {c \in CallerClaims :
     \/ c.Id = 1 /\ c.Subject = "alice" /\ c.CustomClaims = "user"
     \/ c.Id \in Ids \ {1} /\ c.Subject = "bob" /\ c.CustomClaims = "admin"}

\* strings a client makes up: self-signed tokens for id 1 with the role
\* "admin", expired and unexpired, and the empty string
Forgeries ==
  [form : {"jwt"}, alg : {"conf"},
   claims : [Id : {1}, Subject : {"alice"}, CustomClaims : {"admin"},
             Csrf : {NumSecrets}, ExpiresAt : {1, Unix(MaxNow) + 1}],
   sig : {FALSE}]
    \cup {EmptyString}

Presentable == {k.tok : k \in known} \cup Forgeries
SeenSecrets == {k.tok.claims.Csrf : k \in known} \cup {0, NumSecrets}

SessionRequests ==
  [Method : {"GET"}, AuthToken : Presentable, RefreshToken : Presentable,
   ContentType : {"form"}, Body : {"ok"}, refresh_token : {Absent},
   FormCsrf : {0}, HeaderCsrf : SeenSecrets,
   Authorization : {NoAuthorization}]

\* the server sends out the strings it signed for a response: the auth and
\* the refresh token in out, if this call signed them
SendOut(k, sgn, out, t) ==
  k \cup {[tok |-> e[1], at |-> t, slot |-> e[2]] :
            e \in {x \in (MintedAs(sgn, "auth") \cap {out[1]}) \X {"auth"}
                          \cup (MintedAs(sgn, "refresh") \cap {out[2]})
                                 \X {"refresh"} :
                     ~\E old \in k : old.tok = x[1] /\ old.slot = x[2]}}

SessionInit ==
  /\ now = 0
  /\ a = New(ZeroAuth, HMACOptions(FALSE, FALSE)).auth
  /\ rnd = 0
  /\ known = {} /\ revoked = {}
  /\ Idle

SessionIssue ==
  /\ op = "none"
  /\ rnd < MaxRnd
  /\ \E c \in SessionClaims :
       /\ Issue(c, NextRandom(rnd))
       /\ rnd' = rnd + 1
       /\ known' = SendOut(known, signed',
                           <<w'.AuthTokenCookie, w'.RefreshTokenCookie>>, now)
       /\ Cardinality(known') <= MaxKnown
       /\ UNCHANGED revoked

SessionServe ==
  /\ op = "none"
  /\ \E req \in SessionRequests :
       /\ Serve(req, GateIds \ revoked, NextRandom(rnd))
       /\ LET used == check'.newCsrfSecret = NextRandom(rnd)
              k2 == SendOut(known, signed',
                            <<w'.AuthTokenCookie, w'.RefreshTokenCookie>>, now)
          IN /\ used => rnd < MaxRnd
             /\ rnd' = IF used THEN rnd + 1 ELSE rnd
             /\ known' = k2
             /\ Cardinality(k2) <= MaxKnown
       /\ UNCHANGED revoked

\* the caller's store revokes an id
Revoke ==
  /\ op = "none"
  /\ \E id \in Ids \ revoked :
       /\ revoked' = revoked \cup {id}
       /\ UNCHANGED <<now, a, rnd, op, r, claims, ret, w, check, gate, revoke,
                      signed, known>>

SessionNext == Tick \/ SessionIssue \/ SessionServe \/ Revoke \/ Finish

SessionSpec == SessionInit /\ [][SessionNext]_vars

\* ------------------------------------------------------------------ logouts
\* LogoutSpec: a signing server in cookie or bearer mode whose caller logs
\* sessions out with NullifyTokens.  The caller's store is a blacklist that
\* holds every string passed to a.revokeRefreshToken, and a.checkTokenId
\* answers false for an id that is in it.

\* the tokens of a response, wherever the mode puts them
TokensOut(x) ==
  IF a.options.BearerTokens THEN <<x.Auth_Token, x.Refresh_Token>>
  ELSE <<x.AuthTokenCookie, x.RefreshTokenCookie>>

\* a.checkTokenId of a blacklist keyed on the revoke argument
StoreOkIds == {id \in GateIds : \A k \in revoked : TokenText(k) # IdText(id)}

SentRefresh == {k.tok : k \in {e \in known : e.slot = "refresh"}}
SentAuth == {k.tok : k \in {e \in known : e.slot = "auth"}}

\* logout requests: the refresh token as a cookie, as the json field
\* Refresh_Token, as the form field refresh_token or as the form field
\* Refresh_Token, or not at all; a json body that cannot be decoded holds
\* no field
LogoutRequests ==
  IF a.options.BearerTokens
    THEN [Method : {"POST"}, AuthToken : {Absent},
          RefreshToken : SentRefresh \cup {Absent},
          ContentType : {"json"}, Body : {"ok"},
          refresh_token : {Absent}, FormCsrf : {0}, HeaderCsrf : {0},
          Authorization : {NoAuthorization}]
         \cup
         [Method : {"POST"}, AuthToken : {Absent}, RefreshToken : {Absent},
          ContentType : {"json"}, Body : {"bad"},
          refresh_token : {Absent}, FormCsrf : {0}, HeaderCsrf : {0},
          Authorization : {NoAuthorization}]
         \cup
         [Method : {"POST"}, AuthToken : {Absent}, RefreshToken : {Absent},
          ContentType : {"form"}, Body : {"ok"},
          refresh_token : SentRefresh \cup {Absent},
          FormCsrf : {0}, HeaderCsrf : {0},
          Authorization : {NoAuthorization}]
         \cup
         [Method : {"POST"}, AuthToken : {Absent}, RefreshToken : SentRefresh,
          ContentType : {"form"}, Body : {"ok"}, refresh_token : {Absent},
          FormCsrf : {0}, HeaderCsrf : {0},
          Authorization : {NoAuthorization}]
    ELSE [Method : {"POST"}, AuthToken : {Absent},
          RefreshToken : SentRefresh \cup {Absent, EmptyString},
          ContentType : {"form"}, Body : {"ok"}, refresh_token : {Absent},
          FormCsrf : {0}, HeaderCsrf : {0},
          Authorization : {NoAuthorization}]

\* requests made with tokens the server sent out and a secret of theirs
RefreshRequests ==
  [Method : {"GET"}, AuthToken : SentAuth, RefreshToken : SentRefresh,
   ContentType : {IF a.options.BearerTokens THEN "json" ELSE "form"},
   Body : {"ok"}, refresh_token : {Absent},
   FormCsrf : {0}, HeaderCsrf : {k.tok.claims.Csrf : k \in known},
   Authorization : {NoAuthorization}]

LogoutInit ==
  /\ now = 0
  /\ \E bearer \in BOOLEAN, revoker \in {"nil", "error"} :
       a = SetRevokeTokenFunction(
             New(ZeroAuth, HMACOptions(FALSE, bearer)).auth, revoker)
  /\ rnd = 0
  /\ known = {} /\ revoked = {}
  /\ Idle

LogoutIssue ==
  /\ op = "none"
  /\ rnd < MaxRnd
  /\ \E c \in SessionClaims :
       /\ Issue(c, NextRandom(rnd))
       /\ rnd' = rnd + 1
       /\ known' = SendOut(known, signed', TokensOut(w'), now)
       /\ Cardinality(known') <= MaxSent
       /\ UNCHANGED revoked

\* the caller runs NullifyTokens on a fresh ResponseWriter and its
\* TokenRevoker puts what it is passed into the store
Logout ==
  /\ op = "none"
  /\ \E req \in LogoutRequests :
       LET n == NullifyTokens(a, FreshWriter, req, now)
       IN /\ op' = "NullifyTokens" /\ r' = req /\ claims' = ZeroClaims
          /\ ret' = "" /\ w' = n.w /\ check' = NoCheck
          /\ gate' = <<>> /\ signed' = {}
          /\ revoke' = n.revoke
          /\ revoked' = revoked \cup {n.revoke[i] : i \in DOMAIN n.revoke}
          /\ Cardinality(revoked') <= MaxRevoked
          /\ UNCHANGED <<now, a, rnd, known>>

LogoutServe ==
  /\ op = "none"
  /\ \E req \in RefreshRequests :
       /\ Serve(req, StoreOkIds, NextRandom(rnd))
       /\ LET used == check'.newCsrfSecret = NextRandom(rnd)
              k2 == SendOut(known, signed', TokensOut(w'), now)
          IN /\ used => rnd < MaxRnd
             /\ rnd' = IF used THEN rnd + 1 ELSE rnd
             /\ known' = k2
             /\ Cardinality(k2) <= MaxSent
       /\ UNCHANGED revoked

LogoutNext == Tick \/ LogoutIssue \/ Logout \/ LogoutServe \/ Finish

LogoutSpec == LogoutInit /\ [][LogoutNext]_vars

\* ------------------------------------------------------------------- chains
\* ChainSpec: one client of a signing server.  After a login the client
\* sends each request with the cookies and the X-CSRF-Token of the response
\* before, as time passes; claims keeps the claims of the login.

\* the request a client makes of the response in x
FollowUp(x) ==
  [NoRequest EXCEPT !.Method = "GET", !.ContentType = "form", !.Body = "ok",
                    !.AuthToken = x.AuthTokenCookie,
                    !.RefreshToken = x.RefreshTokenCookie,
                    !.HeaderCsrf = x.XCSRFToken]

ChainInit == SessionInit

ChainIssue ==
  /\ op = "none"
  /\ rnd < MaxRnd
  /\ \E c \in CallerClaims :
       /\ Issue(c, NextRandom(rnd))
       /\ rnd' = rnd + 1
       /\ known' = SendOut(known, signed',
                           <<w'.AuthTokenCookie, w'.RefreshTokenCookie>>, now)
       /\ UNCHANGED revoked

\* the clock advances while the client holds the tokens
ChainTick ==
  /\ op # "none"
  /\ now < MaxNow
  /\ now' = now + 1
  /\ UNCHANGED <<a, rnd, op, r, claims, ret, w, check, gate, revoke, signed,
                 known, revoked>>

ChainRefresh ==
  /\ op \in {"IssueNewTokens", "Process"}
  /\ ret = ""
  /\ \E ans \in BOOLEAN :
       LET okIds == IF ans THEN GateIds ELSE {}
           refreshed(p) ==
             /\ (p.check.newCsrfSecret = NextRandom(rnd)) => rnd < MaxRnd
             /\ rnd' = IF p.check.newCsrfSecret = NextRandom(rnd)
                         THEN rnd + 1 ELSE rnd
             /\ op' = "Process" /\ r' = FollowUp(w)
             /\ ret' = p.ret /\ w' = p.w /\ check' = p.check
             /\ gate' = [i \in DOMAIN p.check.gate |->
                           [id |-> p.check.gate[i],
                            ok |-> p.check.gate[i] \in okIds]]
             /\ revoke' = p.revoke
             /\ signed' = p.check.signed
             /\ UNCHANGED <<now, a, claims, known, revoked>>
       IN refreshed(Process(a, FreshWriter, FollowUp(w), now,
                            NextRandom(rnd), okIds))

ChainNext == ChainIssue \/ ChainTick \/ ChainRefresh \/ Finish

ChainSpec == ChainInit /\ [][ChainNext]_vars

\* ----------------------------------------------------------------- browsers
\* BrowserSpec: one client of a signing server in cookie mode that keeps
\* each cookie of the last response until the Expires time set on it, and
\* sends the cookies it still has with the X-CSRF-Token of that response.
\* a.checkTokenId is the default one, which answers true.

\* the cookie a client still has at time t
Kept(value, expires, t) == IF Unix(t) <= expires THEN value ELSE Absent

BrowserRequest(x, t) ==
  [NoRequest EXCEPT
     !.Method = "GET", !.ContentType = "form", !.Body = "ok",
     !.AuthToken = Kept(x.AuthTokenCookie, x.AuthTokenExpires, t),
     !.RefreshToken = Kept(x.RefreshTokenCookie, x.RefreshTokenExpires, t),
     !.HeaderCsrf = x.XCSRFToken]

BrowserRefresh ==
  /\ op \in {"IssueNewTokens", "Process"}
  /\ ret = ""
  /\ LET refreshed(p) ==
           /\ (p.check.newCsrfSecret = NextRandom(rnd)) => rnd < MaxRnd
           /\ rnd' = IF p.check.newCsrfSecret = NextRandom(rnd)
                       THEN rnd + 1 ELSE rnd
           /\ op' = "Process" /\ r' = BrowserRequest(w, now)
           /\ ret' = p.ret /\ w' = p.w /\ check' = p.check
           /\ gate' = [i \in DOMAIN p.check.gate |->
                         [id |-> p.check.gate[i], ok |-> TRUE]]
           /\ revoke' = p.revoke
           /\ signed' = p.check.signed
           /\ UNCHANGED <<now, a, claims, known, revoked>>
     IN refreshed(Process(a, FreshWriter, BrowserRequest(w, now), now,
                          NextRandom(rnd), GateIds))

BrowserNext == ChainIssue \/ ChainTick \/ BrowserRefresh \/ Finish

BrowserSpec == ChainInit /\ [][BrowserNext]_vars

\* ----------------------------------------------------------- what was asked
\* the inputs of the checkAndRefreshTokens call of the request in r
oldAuth == FieldValue(r.AuthToken)
oldRefresh == FieldValue(r.RefreshToken)
oldCsrf == grabCsrfFromReq(r)

\* checkAndRefreshTokens was called for the request
Checked == op = "Process" /\ check # NoCheck

\* properties of a presented string, read off the string itself
WellFormed(s) == s.form = "jwt"
GoodSignature(s) ==
  s.form = "jwt" /\ s.alg = "conf" /\ s.sig
PastExpiry(s) ==
  s.form = "jwt" /\ s.claims.ExpiresAt # 0 /\ Unix(now) > s.claims.ExpiresAt
IsValid(s) == GoodSignature(s) /\ ~PastExpiry(s)
IsExpiredOnly(s) == GoodSignature(s) /\ PastExpiry(s)
IsInvalid(s) == ~GoodSignature(s)

NotAuthorizedErrors ==
  {"Unauthorized", "Server is not authorized to issue new tokens"}
\* the Unauthorized outcome of checkAndRefreshTokens
Unauthorized == ~check.panic /\ check.err \in NotAuthorizedErrors
\* checkAndRefreshTokens returned a token triple
Succeeded == Checked /\ ~check.panic /\ check.err = ""
\* no token was returned or signed
NoTokens ==
  /\ check.newAuthTokenString = EmptyString
  /\ check.newRefreshTokenString = EmptyString
  /\ signed = {}

ServerCanSign == ~a.options.VerifyOnlyServer

\* ------------------------------------------------------------------- claims

\* C1: checkAndRefreshTokens returns Unauthorized and no tokens whenever the
\* presented secret is empty or differs from the Csrf claim embedded in the
\* presented auth token, for every auth token and every refresh token.
C1_CsrfBinding ==
  (Checked /\ (oldCsrf = 0
                 \/ (WellFormed(oldAuth) /\ oldCsrf # oldAuth.claims.Csrf)))
    => (Unauthorized /\ check.err = "Unauthorized" /\ NoTokens)

\* a valid, unexpired auth token and a valid refresh token of the same
\* session are presented with another session's secret
C1_Witness ==
  /\ Checked
  /\ IsValid(oldAuth) /\ IsValid(oldRefresh)
  /\ oldRefresh.claims.Csrf = oldAuth.claims.Csrf
  /\ oldCsrf \notin {0, oldAuth.claims.Csrf}
  /\ check.err = "Unauthorized"

\* C2: for every auth token that verification judges Invalid (bad signature,
\* wrong signing algorithm, malformed), checkAndRefreshTokens returns the
\* Unauthorized outcome, not an internal error and not tokens, whatever the
\* refresh token is and whether or not the token is past its expiry.
C2_InvalidAuthIsUnauthorized ==
  (Checked /\ IsInvalid(oldAuth)) => (Unauthorized /\ NoTokens)

\* C3: pass-through: for a valid, unexpired auth token A with secret S and a
\* refresh token R, on a server that can sign, the result is A unchanged, S
\* unchanged and a refresh token with R's id, subject, customClaims and Csrf.
C3_PassThrough ==
  (Checked /\ ServerCanSign /\ IsValid(oldAuth)
     /\ oldCsrf = oldAuth.claims.Csrf /\ WellFormed(oldRefresh))
    => /\ Succeeded
       /\ check.newAuthTokenString = oldAuth
       /\ check.newCsrfSecret = oldCsrf
       /\ WellFormed(check.newRefreshTokenString)
       /\ check.newRefreshTokenString.claims.Id = oldRefresh.claims.Id
       /\ check.newRefreshTokenString.claims.Subject = oldRefresh.claims.Subject
       /\ check.newRefreshTokenString.claims.CustomClaims
            = oldRefresh.claims.CustomClaims
       /\ check.newRefreshTokenString.claims.Csrf = oldRefresh.claims.Csrf

\* a pass-through of a paired A and R whose refresh token comes back re-signed
C3_Witness ==
  /\ Checked /\ ServerCanSign
  /\ IsValid(oldAuth) /\ IsValid(oldRefresh)
  /\ oldCsrf = oldAuth.claims.Csrf
  /\ oldRefresh.claims.Csrf = oldCsrf
  /\ oldRefresh.claims.Id = oldAuth.claims.Id
  /\ Succeeded
  /\ check.newRefreshTokenString # oldRefresh
  /\ check.newRefreshTokenString \in MintedAs(signed, "refresh")

\* a.checkTokenId did not answer false
NotRevoked == \A i \in DOMAIN gate : gate[i].ok
\* an expired auth token with a good signature, presented with its secret
RotationRequest ==
  Checked /\ IsExpiredOnly(oldAuth) /\ oldCsrf = oldAuth.claims.Csrf

\* what a rotation returns
RotationResult ==
  /\ Succeeded
  /\ check.newCsrfSecret \notin {0, oldCsrf}
  /\ GoodSignature(check.newAuthTokenString)
  /\ check.newAuthTokenString.claims.Csrf = check.newCsrfSecret
  /\ check.newAuthTokenString.claims.ExpiresAt
       = Unix(now + a.options.AuthTokenValidTime)
  /\ GoodSignature(check.newRefreshTokenString)
  /\ check.newRefreshTokenString.claims.Id = oldRefresh.claims.Id
  /\ check.newRefreshTokenString.claims.Csrf = check.newCsrfSecret
  /\ check.newRefreshTokenString.claims.ExpiresAt
       = Unix(now + a.options.RefreshTokenValidTime)

\* C5 as stated: if A is expired (signature good) with matching secret S and
\* R is valid and not revoked, refresh(A, R, S) returns a new secret, a new
\* auth token with that secret and expiry now + auth TTL, and a new refresh
\* token with R's id, that secret and expiry now + refresh TTL.
C5_RotationAsStated ==
  (RotationRequest /\ IsValid(oldRefresh) /\ NotRevoked) => RotationResult

\* C5 amended: the same, on a server that can sign (VerifyOnlyServer false).
C5_Rotation ==
  (RotationRequest /\ ServerCanSign /\ IsValid(oldRefresh) /\ NotRevoked)
    => RotationResult

\* a rotation that the gate allowed
C5_Witness ==
  /\ RotationRequest /\ ServerCanSign /\ IsValid(oldRefresh)
  /\ gate # <<>> /\ gate[1].ok
  /\ Succeeded
  /\ check.newAuthTokenString \in MintedAs(signed, "auth")

\* C6: on every successful rotation the new auth token's subject, id and
\* customClaims are those of the presented refresh token, never those of the
\* expired auth token, also when the two presented tokens carry different
\* claims.
C6_RotatedClaimsFromRefresh ==
  (Succeeded /\ PastExpiry(oldAuth))
    => /\ WellFormed(oldRefresh)
       /\ check.newAuthTokenString.claims.Subject = oldRefresh.claims.Subject
       /\ check.newAuthTokenString.claims.Id = oldRefresh.claims.Id
       /\ check.newAuthTokenString.claims.CustomClaims
            = oldRefresh.claims.CustomClaims

\* a rotation whose presented tokens differ in id, subject and customClaims
C6_Witness ==
  /\ RotationRequest /\ Succeeded
  /\ oldAuth.claims.Id # oldRefresh.claims.Id
  /\ oldAuth.claims.Subject # oldRefresh.claims.Subject
  /\ oldAuth.claims.CustomClaims # oldRefresh.claims.CustomClaims
  /\ check.newAuthTokenString \in MintedAs(signed, "auth")

\* C8: when the auth token is expired with matching secret and the presented
\* refresh token is itself expired or Invalid (bad signature, wrong
\* algorithm, malformed), refresh returns Unauthorized and mints no auth
\* token and no refresh token.
C8_BadRefreshIsUnauthorized ==
  (RotationRequest /\ (PastExpiry(oldRefresh) \/ IsInvalid(oldRefresh)))
    => (Unauthorized /\ NoTokens)

\* C9: with VerifyOnlyServer=true, IssueNewTokens returns a not-authorized
\* error and writes no tokens or secret to the response; every refresh whose
\* auth token is expired returns a not-authorized error that Process answers
\* through the unauthorized handler; no token is ever signed.
C9_VerifyOnlyNeverSigns ==
  a.options.VerifyOnlyServer =>
    /\ signed = {}
    /\ op = "IssueNewTokens" =>
         (ret \in NotAuthorizedErrors /\ w = FreshWriter)
    /\ (Checked /\ oldAuth.alg = "conf" /\ PastExpiry(oldAuth)) =>
         /\ Unauthorized /\ NoTokens
         /\ ret = "Unauthorized"
         /\ w = [FreshWriter EXCEPT !.handlers = <<"unauthorized">>]

\* a verify-only server was asked to rotate with tokens a signing server
\* would have rotated
C9_Witness ==
  /\ a.options.VerifyOnlyServer
  /\ RotationRequest /\ IsValid(oldRefresh)
  /\ check.err = "Server is not authorized to issue new tokens"

\* C10: with VerifyOnlyServer=true, pass-through validation of a still-valid
\* auth token with matching secret succeeds and returns the presented auth
\* token, refresh token and secret unchanged, signs nothing and does not call
\* the revocation gate.
C10_VerifyOnlyPassThrough ==
  (Checked /\ a.options.VerifyOnlyServer /\ IsValid(oldAuth)
     /\ oldCsrf = oldAuth.claims.Csrf)
    => /\ Succeeded
       /\ check.newAuthTokenString = oldAuth
       /\ check.newRefreshTokenString = oldRefresh
       /\ check.newCsrfSecret = oldCsrf
       /\ signed = {}
       /\ gate = <<>>
       /\ ret = ""

\* a verify-only pass-through with a refresh token that a signing server
\* would have re-signed
C10_Witness ==
  /\ Checked /\ a.options.VerifyOnlyServer
  /\ IsValid(oldAuth) /\ oldCsrf = oldAuth.claims.Csrf
  /\ IsValid(oldRefresh)
  /\ Succeeded

\* a pass-through: a valid auth token presented with its secret was accepted
PassedThrough ==
  Succeeded /\ IsValid(oldAuth) /\ oldCsrf = oldAuth.claims.Csrf
\* the times the server created the presented refresh token as a refresh token
CreatedAt(s) == {k.at : k \in {e \in known : e.tok = s /\ e.slot = "refresh"}}

C7_RevokedBlocksRotation ==
  (RotationRequest /\ ServerCanSign /\ IsValid(oldRefresh))
    => /\ gate = <<[id |-> oldRefresh.claims.Id, ok |-> gate[1].ok]>>
       /\ ~gate[1].ok => (Unauthorized /\ NoTokens)

\* C7, second part: once the id is revoked, no request makes the server sign
\* an auth token that carries it.
C7_NoAuthTokenMinted ==
  [][op' = "Process" =>
       \A k \in known' \ known :
         k.slot = "auth" => k.tok.claims.Id \notin revoked]_vars

\* the auth tokens the server has issued with an id
AuthTokensOf(id) ==
  {k.tok : k \in {e \in known : e.slot = "auth" /\ e.tok.claims.Id = id}}

\* C7, third part: once the id is revoked, the session is used only as long
\* as an auth token the server issued for it has not expired.
C7_RevokedSessionEnds ==
  (Succeeded /\ oldAuth.claims.Id \in revoked
     /\ AuthTokensOf(oldAuth.claims.Id) # {})
    => \E s \in AuthTokensOf(oldAuth.claims.Id) : ~PastExpiry(s)

\* C7: revocation blocks rotation; once isValid(id) answers false from some
\* point on, no auth token carrying that id is minted after that point and
\* the session can only be used by pass-through until the already-issued
\* auth token expires.
C7_RevocationEndsSession ==
  C7_RevokedBlocksRotation /\ C7_RevokedSessionEnds

\* the returned auth token was made by this call, of a presented auth token
\* that is past its expiry
Regenerated ==
  /\ PastExpiry(oldAuth)
  /\ check.newAuthTokenString \in MintedAs(signed, "auth")

\* C11: on every successful refresh the returned secret differs from the
\* presented secret if and only if the returned auth token is a newly
\* generated one because the presented auth token had expired; a
\* pass-through never changes the secret.
C11_SecretChangesOnlyOnRotation ==
  Succeeded =>
    /\ (check.newCsrfSecret # oldCsrf) <=> Regenerated
    /\ ~PastExpiry(oldAuth) =>
          (check.newCsrfSecret = oldCsrf /\ check.newAuthTokenString = oldAuth)

\* a rotation that returned a new secret with a newly made auth token
C11_Witness ==
  /\ RotationRequest /\ Succeeded
  /\ Regenerated
  /\ check.newCsrfSecret # oldCsrf
  /\ check.newAuthTokenString.claims.Csrf = check.newCsrfSecret

\* the client holds tokens: the login or the refresh before succeeded
HoldsTokens == op \in {"IssueNewTokens", "Process"} /\ ret = ""
\* claims without the fields the server sets
Session(c) == [c EXCEPT !.Csrf = 0, !.ExpiresAt = 0]

\* C12: for a session created by IssueNewTokens with claims C, after any
\* sequence of successful pass-through and rotation refreshes each fed the
\* tokens and secret of the response before, the refresh token's id is the
\* id of the login, the auth and the refresh token's customClaims are those
\* of C, and the refresh token differs from the one issued in expiry and
\* Csrf only.
C12_SessionClaimsKept ==
  HoldsTokens =>
    /\ GoodSignature(w.RefreshTokenCookie) /\ GoodSignature(w.AuthTokenCookie)
    /\ w.RefreshTokenCookie.claims.Id = claims.Id
    /\ w.RefreshTokenCookie.claims.CustomClaims = claims.CustomClaims
    /\ w.AuthTokenCookie.claims.CustomClaims = claims.CustomClaims
    /\ Session(w.RefreshTokenCookie.claims) = Session(claims)

\* a pass-through that follows a rotation that followed the login
C12_Witness ==
  /\ HoldsTokens /\ op = "Process"
  /\ rnd = 2
  /\ oldCsrf = NextRandom(1)
  /\ PassedThrough
  /\ check.newRefreshTokenString \in MintedAs(signed, "refresh")
  /\ w.RefreshTokenCookie.claims.Id = claims.Id

\* an auth token, a refresh token and a secret that belong together
Paired(auth, refresh, secret) ==
  /\ WellFormed(auth) /\ WellFormed(refresh)
  /\ auth.claims.Id = refresh.claims.Id
  /\ auth.claims.CustomClaims = refresh.claims.CustomClaims
  /\ auth.claims.Csrf = refresh.claims.Csrf
  /\ auth.claims.Csrf = secret

\* C13: every (auth token, refresh token, secret) triple returned by
\* IssueNewTokens or by a successful checkAndRefreshTokens, for any
\* presented inputs, has an auth and a refresh token with the same id, the
\* same customClaims and the same Csrf claim, which is the returned secret.
C13_ReturnedTriplePaired ==
  /\ (op = "IssueNewTokens" /\ ret = "")
       => Paired(w.AuthTokenCookie, w.RefreshTokenCookie, w.XCSRFToken)
  /\ Succeeded
       => Paired(check.newAuthTokenString, check.newRefreshTokenString,
                 check.newCsrfSecret)

\* the ids of the sessions issued so far
IssuedIds == {k.tok.claims.Id : k \in known}

\* C14: IssueNewTokens assigns a fresh session id on every call: the id the
\* issued auth and refresh tokens carry is distinct from the id of every
\* session issued before, whatever claims the caller passes.
C14_FreshIdPerIssue ==
  [][(op' = "IssueNewTokens" /\ ret' = "")
       => /\ w'.AuthTokenCookie.claims.Id = w'.RefreshTokenCookie.claims.Id
          /\ w'.RefreshTokenCookie.claims.Id \notin IssuedIds]_vars

\* C15: after NullifyTokens has been run for refresh token R and the
\* caller's revocation store reflects what was passed to revoke, every
\* subsequent refresh using R returns Unauthorized, even if R is not yet
\* expired.
C15_LoggedOutTokenRefused ==
  (Checked /\ oldRefresh \in revoked) => (Unauthorized /\ NoTokens)

\* NullifyTokens called a.revokeRefreshToken for the request
Revoking == op = "NullifyTokens" /\ revoke # <<>>

\* C16: the key NullifyTokens passes to the revoke function for a refresh
\* token R is R's session id, the value a.checkTokenId receives when R is
\* presented for rotation, so a store keyed on the revoke argument answers
\* false for that session.
C16_RevokeKeyIsSessionId ==
  (Revoking /\ WellFormed(revoke[1]))
    => /\ TokenText(revoke[1]) = IdText(revoke[1].claims.Id)
       /\ revoke[1].claims.Id \notin StoreOkIds

\* C17: a.checkTokenId is called exactly once per rotation attempt (a
\* refresh whose auth token is expired with matching secret on a server
\* that can sign), for every presented refresh token, and never on
\* pass-through validation.
C17_GateOncePerRotation ==
  /\ (RotationRequest /\ ServerCanSign) => Len(gate) = 1
  /\ (Checked /\ IsValid(oldAuth) /\ oldCsrf = oldAuth.claims.Csrf)
       => gate = <<>>

\* NullifyTokens got as far as reading a refresh token value from r
ReadsRefreshToken(req) ==
  IF a.options.BearerTokens
    THEN ~(req.ContentType = "json" /\ req.Body # "ok")
    ELSE req.RefreshToken # Absent
\* the refresh token value NullifyTokens reads from r ("" if there is none)
RefreshTokenRead(req) ==
  IF a.options.BearerTokens /\ req.ContentType # "json"
    THEN FieldValue(req.refresh_token)
    ELSE FieldValue(req.RefreshToken)

\* C18 as stated: every invocation of NullifyTokens, in cookie mode and in
\* bearer mode, with or without a refresh token in the request, results in
\* exactly one call of the revoke function.
C18_RevokeOncePerLogout ==
  op = "NullifyTokens" => Len(revoke) = 1

\* C18 amended: NullifyTokens calls the revoke function exactly once, with
\* the refresh token value it read, in cookie mode when the request has a
\* RefreshToken cookie and in bearer mode when the body could be decoded
\* (with "" when no token was sent); otherwise it makes no call.
C18_RevokeOnceWhenRead ==
  op = "NullifyTokens" =>
    revoke = IF ReadsRefreshToken(r) THEN <<RefreshTokenRead(r)>> ELSE <<>>

\* a logout with the refresh token the server sent out
C18_Witness ==
  /\ op = "NullifyTokens"
  /\ ~a.options.BearerTokens
  /\ r.RefreshToken \in SentRefresh
  /\ revoke = <<r.RefreshToken>>

\* the response of a logout: the secret blanked, the expiry headers in the
\* past, no handler invoked and, in cookie mode, both cookies expired
LoggedOut(x) ==
  /\ x.XCSRFToken = 0
  /\ x.AuthExpiry = Unix(now - NullifyOffset)
  /\ x.RefreshExpiry = Unix(now - NullifyOffset)
  /\ x.handlers = <<>>
  /\ ~a.options.BearerTokens =>
       /\ x.AuthTokenCookie = EmptyString
       /\ x.AuthTokenExpires = Unix(now - NullifyOffset)
       /\ x.RefreshTokenCookie = EmptyString
       /\ x.RefreshTokenExpires = Unix(now - NullifyOffset)

\* C19: an error returned by the revoke function never aborts the logout:
\* NullifyTokens produces the same response effects (expired cookies, blank
\* X-CSRF-Token, past expiry headers) and does not invoke the error handler
\* whether revoke returns nil or an error.
C19_RevokeErrorSwallowed ==
  (Revoking /\ a.revokeRefreshToken \in {"nil", "error"}) => LoggedOut(w)

\* a logout whose revoke call returned an error
C19_Witness ==
  /\ Revoking
  /\ a.revokeRefreshToken = "error"
  /\ ~a.options.BearerTokens
  /\ revoke[1] \in SentRefresh
  /\ LoggedOut(w)

\* C20: every logout (NullifyTokens call) clears the transport
\* representation of both tokens and blanks the secret: in cookie mode the
\* AuthToken and RefreshToken cookies are expired and X-CSRF-Token is set to
\* empty, in bearer mode the Auth_Token and Refresh_Token response fields
\* are cleared and X-CSRF-Token is set to empty, on every path.
C20_LogoutClearsTransport ==
  op = "NullifyTokens" =>
    /\ w.XCSRFToken = 0
    /\ IF a.options.BearerTokens
         THEN /\ w.Auth_Token = EmptyString
              /\ w.Refresh_Token = EmptyString
         ELSE /\ w.AuthTokenCookie = EmptyString
              /\ w.AuthTokenExpires = Unix(now - NullifyOffset)
              /\ w.RefreshTokenCookie = EmptyString
              /\ w.RefreshTokenExpires = Unix(now - NullifyOffset)

\* C21: checkAndRefreshTokens returns a tagged result for every input: for
\* every triple of strings (empty, malformed or garbled token strings
\* included) it ends with either a token triple or an error value, and
\* never aborts the request with a runtime fault.
C21_NoRuntimeFault ==
  Checked => (~check.panic /\ ret # "panic")

\* C22: in cookie mode an expired auth token is refreshed by the refresh
\* token: for a client that keeps each cookie until the Expires time the
\* server set on it and always sends the current secret, every request made
\* after the auth token expired, while the refresh token is unexpired and
\* not revoked, is answered with a newly issued auth token rather than
\* Unauthorized.
C22_ExpiredAuthIsRefreshed ==
  [][(HoldsTokens /\ op' = "Process"
        /\ PastExpiry(w.AuthTokenCookie)
        /\ IsValid(w.RefreshTokenCookie))
       => /\ ret' = ""
          /\ w'.AuthTokenCookie \in MintedAs(signed', "auth")]_vars

\* the header value is the Unix time of an instant less than a second away
\* from the instant the token expires: the instant it was signed as a
\* token of this kind plus its valid time
NearExpiry(header, tok, slot, ttl) ==
  \E k \in {e \in known : e.tok = tok /\ e.slot = slot} :
    \E h \in (k.at + ttl - TicksPerSec + 1)..(k.at + ttl + TicksPerSec - 1) :
      header = Unix(h)

\* C23: after every successful Process or IssueNewTokens (issue,
\* pass-through and rotation alike) the Auth-Expiry and Refresh-Expiry
\* response headers equal the actual expiry of the auth token and the
\* refresh token emitted in that response, up to sub-second clock
\* difference.
C23_ExpiryHeadersMatchTokens ==
  (op \in {"IssueNewTokens", "Process"} /\ ret = "")
    => /\ NearExpiry(w.AuthExpiry, TokensOut(w)[1], "auth",
                     a.options.AuthTokenValidTime)
       /\ NearExpiry(w.RefreshExpiry, TokensOut(w)[2], "refresh",
                     a.options.RefreshTokenValidTime)

\* the white space of a header value
WhiteSpace == {Space, Tab}

\* the Authorization header without a leading word "Basic" and without
\* white space
BasicCredentials(auth) ==
  SelectSeq(IF auth # <<>> /\ auth[1] = BasicWord THEN Tail(auth) ELSE auth,
            LAMBDA x : x \notin WhiteSpace)

\* the Authorization header without the first word "Basic" in it, wherever
\* it stands, and without spaces
WithoutBasicAndSpaces(auth) ==
  LET at == {i \in 1..Len(auth) : auth[i] = BasicWord}
      first == IF at = {} THEN 0 ELSE CHOOSE i \in at : \A j \in at : i <= j
  IN SelectSeq(SubSeq(auth, 1, first - 1) \o SubSeq(auth, first + 1, Len(auth)),
               LAMBDA x : x # Space)

\* C24 (as stated): the secret is the form field X-CSRF-Token if non-empty,
\* otherwise the header X-CSRF-Token if non-empty, otherwise the
\* Authorization header with the Basic scheme prefix and all white space
\* removed.
C24_SecretPrecedence ==
  op = "grabCsrfFromReq"
    => ret = (IF r.FormCsrf # 0 THEN r.FormCsrf
              ELSE IF r.HeaderCsrf # 0 THEN r.HeaderCsrf
              ELSE SecretOf(BasicCredentials(r.Authorization)))

\* C24 (amended): the secret is the form field X-CSRF-Token if non-empty,
\* otherwise the header X-CSRF-Token if non-empty, otherwise the
\* Authorization header with the first "Basic" in it and every space
\* removed; tabs stay, and a lower source is never used when a higher one
\* is non-empty.
C24_SecretPrecedenceSpaces ==
  op = "grabCsrfFromReq"
    => /\ r.FormCsrf # 0 => ret = r.FormCsrf
       /\ (r.FormCsrf = 0 /\ r.HeaderCsrf # 0) => ret = r.HeaderCsrf
       /\ (r.FormCsrf = 0 /\ r.HeaderCsrf = 0)
            => ret = SecretOf(WithoutBasicAndSpaces(r.Authorization))

\* all three places hold a different secret, and the form field won
C24_Witness ==
  /\ op = "grabCsrfFromReq"
  /\ r.FormCsrf = 1 /\ r.HeaderCsrf = 2
  /\ r.Authorization = <<BasicWord, Space, 2>>
  /\ ret = 1

HMACMethods == {"HS256", "HS384", "HS512"}
KeyFileMethods == {"RS256", "RS384", "RS512", "ES256", "ES384", "ES512"}

\* what the claim names as a configuration that New must refuse
Misconfigured(o) ==
  \/ o.SigningMethodString \notin HMACMethods \cup KeyFileMethods
  \/ o.SigningMethodString \in HMACMethods /\ ~o.HMACKey
  \/ /\ o.SigningMethodString \in KeyFileMethods
     /\ \/ o.PublicKeyLocation = ""
        \/ o.PrivateKeyLocation = "" /\ ~o.VerifyOnlyServer
        \/ o.PublicKeyLocation \in {"unreadable", "garbage"}
        \/ /\ ~o.VerifyOnlyServer
           /\ o.PrivateKeyLocation \in {"unreadable", "garbage"}

\* C25: New returns a configuration error, and leaves the Auth unmodified,
\* exactly when the signing method is none of the nine HS/RS/ES names, or
\* an HMAC method has an empty key, or an RSA/ECDSA method lacks a public
\* key location or (unless verify-only) a private key location, or a
\* required key file cannot be read or parsed; otherwise it succeeds, and
\* on a verify-only server the Auth holds no signing key.
C25_NewRefusesMisconfiguration ==
  [][op' = "New"
       => /\ ret' # "" <=> Misconfigured(r')
          /\ ret' # "" => a' = a
          /\ ret' = "" => /\ a'.options.SigningMethodString
                               = r'.SigningMethodString
                          /\ a'.verifyKey
                          /\ a'.signKey = ~r'.VerifyOnlyServer]_vars

\* a verify-only RSA server was set up although its private key file
\* cannot be read, and it holds no signing key
C25_Witness ==
  /\ op = "New" /\ ret = ""
  /\ r.SigningMethodString = "RS256" /\ r.VerifyOnlyServer
  /\ r.PrivateKeyLocation = "unreadable"
  /\ ~a.signKey

\* the handlers served on the response, in order
Served(h) == \E i \in DOMAIN w.handlers : w.handlers[i] = h
InMiddleware ==
  op \in {"Handler", "HandlerFuncWithNext", "HandlerFuncWithNext(nil)"}

\* no token and no secret is on the response
NothingWritten ==
  /\ w.AuthTokenCookie \in {Absent, EmptyString}
  /\ w.RefreshTokenCookie \in {Absent, EmptyString}
  /\ w.Auth_Token = Absent /\ w.Refresh_Token = Absent
  /\ w.XCSRFToken \in {NoValue, 0}

\* C26: Handler and HandlerFuncWithNext invoke the wrapped handler if and
\* only if Process returned nil; on every non-nil return exactly one of the
\* unauthorized handler and the error handler has been invoked, and no auth
\* token, refresh token or secret has been written to the response.
C26_ChainContinuesOnlyOnSuccess ==
  /\ op = "Handler" => (Served("h") <=> ret = "")
  /\ op = "HandlerFuncWithNext" => (Served("next") <=> ret = "")
  /\ InMiddleware /\ ret = "" => ~Served("unauthorized") /\ ~Served("error")
  /\ InMiddleware /\ ret \notin {"", "panic"}
       => /\ w.handlers \in {<<"unauthorized">>, <<"error">>}
          /\ NothingWritten

\* a request without its auth cookie was refused: the unauthorized handler
\* alone ran, over blanked cookies
C26_Witness ==
  /\ op = "Handler" /\ ret = "Unauthorized"
  /\ r.AuthToken = Absent /\ IsValid(r.RefreshToken)
  /\ w.handlers = <<"unauthorized">>
  /\ w.RefreshTokenCookie = EmptyString

\* C27: checkAndRefreshTokens returns a token triple only if the presented
\* auth token's signature verifies under the server's key with the
\* configured signing method: a token that is expired and carries a bad
\* signature never enters the rotation path, so a self-made auth token
\* presented with the secret embedded in it obtains no tokens.
C27_TriplesOnlyForVerifiedAuth ==
  /\ Succeeded => GoodSignature(oldAuth)
  /\ (Checked /\ gate # <<>>) => GoodSignature(oldAuth)

\* the id, subject and customClaims are those a session was created with
OfSomeSession(c) ==
  \E s \in SessionClaims :
    /\ s.Id = c.Id /\ s.Subject = c.Subject
    /\ s.CustomClaims = c.CustomClaims

\* C28: the server never signs claims it did not originate: a refresh
\* operation signs a refresh token only if the presented refresh token
\* carried a valid server signature and was unexpired, so the id, subject
\* and customClaims of every server-signed token are those of some session
\* created by IssueNewTokens, on pass-through too.
C28_SignsOnlyOwnClaims ==
  /\ (Checked /\ MintedAs(signed, "refresh") # {}) => IsValid(oldRefresh)
  /\ \A x \in signed : OfSomeSession(x.str.claims)

\* the step is a second invocation on the request of the first
Repeated == op = "Process" /\ op' = "Process" /\ r' = r /\ now' = now

\* the state holds the result of a rotation
Rotated ==
  Succeeded /\ check.newAuthTokenString \in MintedAs(signed, "auth")

C30_OptionsPassesThrough ==
  (InMiddleware /\ r.Method = "OPTIONS")
    => /\ ret = "" /\ check = NoCheck
       /\ gate = <<>> /\ revoke = <<>> /\ signed = {}
       /\ [w EXCEPT !.handlers = <<>>] = FreshWriter
       /\ op = "Handler" => w.handlers = <<"h">>
       /\ op = "HandlerFuncWithNext" => w.handlers = <<"next">>

\* an OPTIONS request with a forged auth token and no secret reached the
\* wrapped handler
C30_Witness ==
  /\ op = "Handler" /\ r.Method = "OPTIONS"
  /\ IsInvalid(r.AuthToken) /\ r.HeaderCsrf = 0
  /\ w.handlers = <<"h">>

\* C31: logout consumes the refresh token from the place request validation
\* reads it from: for every request, the value NullifyTokens hands to the
\* revoke function is the value Process would read as the refresh token of
\* that request, in cookie mode, bearer json mode and bearer form mode.
C31_LogoutReadsWhereProcessReads ==
  Revoking => revoke = <<FieldValue(r.RefreshToken)>>
====
